---------------------------- MODULE Spec2Model ----------------------------
(***************************************************************************)
(* A model of kern/monitor.c of the JOS kernel: the command-line kernel    *)
(* monitor (monitor, runcmd, the static command table and its handlers)    *)
(* and the frame-pointer stack unwinder (mon_backtrace, print_curr_trace). *)
(*                                                                         *)
(* Characters are one-character strings, NUL is the C string terminator.   *)
(* A C string is a sequence of characters; a pointer into the line buffer  *)
(* is a 1-based index into `buf`, the null pointer is 0.  Stack memory is  *)
(* a function from byte addresses (multiples of 4) to 32-bit words.        *)
(* Console output is the sequence of cprintf calls: the literal format     *)
(* string and the values handed to it.                                     *)
(***************************************************************************)
EXTENDS Integers, Sequences, FiniteSets, TLC

VARIABLES
    pc,        \* position of the single thread of control
    line,      \* the line readline returned for the command in progress
    buf,       \* the line buffer runcmd tokenizes in place
    bp,        \* runcmd's moving pointer `buf`, an index into the line buffer
    argc,      \* runcmd's argc
    argv,      \* runcmd's argv[MAXARGS], indexed 0..MAXARGS-1
    ret,       \* the value runcmd returned to monitor
    out,       \* cprintf calls of the command in progress
    invoked,   \* handler invocations made by the runcmd in progress
    mem,       \* stack memory (and the words just above the boot stack)
    ebp,       \* the frame-base register while mon_backtrace runs
    curr_bp,   \* mon_backtrace's curr_bp
    symtab,    \* return addresses the symbol resolver has debug info for
    callsite   \* per frame base: the words its owner was passed at its call site

vars == <<pc, line, buf, bp, argc, argv, ret, out, invoked, mem, ebp, curr_bp,
          symtab, callsite>>

-----------------------------------------------------------------------------
(* Bounds of the model.                                                    *)

\* Deepest nesting of calls between kernel entry and mon_backtrace.
MaxDepth == 3

\* An input line is a concatenation of at most MaxPieces words and blanks.
MaxPieces == 3

\* A many-token line has up to MAXARGS + ExtraTokens tokens.
ExtraTokens == 2

\* Records a backtrace over a chain that never reaches the sentinel may emit
\* before the model stops following it.
ExtraRecords == 3

-----------------------------------------------------------------------------
(* Characters and C strings.                                               *)

NUL == "NUL"

WHITESPACE == <<"\t", "\r", "\n", " ">>

MAXARGS == 16

\* The null pointer held by an argv entry.
NULL == 0

\* buf == NULL: readline returned no line.
NoLine == <<>>

\* The content of a not yet written argv entry.
Indeterminate == -1

\* strchr(s, c) != NULL: c occurs in s, or c is the terminator of s.
strchr(s, c) == (\E i \in 1..Len(s) : s[i] = c) \/ c = NUL

\* The C string that starts at index p of buffer b: up to the first NUL.
RECURSIVE CStr(_, _)
CStr(b, p) == IF p > Len(b) \/ b[p] = NUL THEN <<>>
              ELSE <<b[p]>> \o CStr(b, p + 1)

\* strcmp(a, b): 0 when the strings are equal, nonzero otherwise.
strcmp(a, b) == IF a = b THEN 0 ELSE 1

-----------------------------------------------------------------------------
(* The static command table.                                               *)

commands ==
    << [name |-> <<"h","e","l","p">>,
        desc |-> "Display this list of commands",
        func |-> "mon_help"],
       [name |-> <<"k","e","r","n","i","n","f","o">>,
        desc |-> "Display information about the kernel",
        func |-> "mon_kerninfo"],
       [name |-> <<"b","a","c","k","t","r","a","c","e">>,
        desc |-> "Display stack backtrace",
        func |-> "mon_backtrace"] >>

NCOMMANDS == Len(commands)

\* The positions at which a handler has just been entered.
HandlerEntries == {commands[i].func : i \in 1..NCOMMANDS}

\* Signals a handler reached through Command.func may return: -1 forces
\* the monitor to exit.
Signals == {-1, 0, 1}

-----------------------------------------------------------------------------
(* Input lines handed over by readline.                                    *)

Blanks == {<<c>> : c \in {"\t", "\r", "\n", " "}}

Words == {commands[i].name : i \in 1..NCOMMANDS}
         \cup {<<"u","n","k","n","o","w","n">>, <<"h","e","l","p","x">>,
               <<"H","e","l","p">>}

Pieces == Blanks \cup Words

RECURSIVE Flatten(_)
Flatten(ps) == IF ps = <<>> THEN <<>> ELSE Head(ps) \o Flatten(Tail(ps))

\* Lines made of at most MaxPieces words and blanks, the empty line included.
ShortLines == UNION {{Flatten(ps) : ps \in [1..n -> Pieces]} : n \in 0..MaxPieces}

\* first, then n-1 further one-character tokens, each after one separator.
RECURSIVE Repeat(_, _)
Repeat(s, n) == IF n <= 0 THEN <<>> ELSE s \o Repeat(s, n - 1)

\* Lines of MAXARGS-2 .. MAXARGS+ExtraTokens tokens.
LongLines ==
    {first \o Repeat(<<sep, "x">>, n - 1) \o tail :
        first \in Words \ {<<"h","e","l","p","x">>},
        n \in (MAXARGS - 2)..(MAXARGS + ExtraTokens),
        sep \in {" "},
        tail \in {<<>>, <<" ", "\n">>}}

\* Blanks around one command name.
PaddedLines == {<<" ", " ">> \o commands[i].name \o <<" ", " ", " ", "\n">> :
                   i \in 1..NCOMMANDS}

Lines == ShortLines \cup LongLines \cup PaddedLines

-----------------------------------------------------------------------------
(* Stack memory and the calling convention.                                *)

\* Bytes a call that passes five words adds below the caller's frame base:
\* five argument words, the return address, the saved frame base.
FrameStride == 4 * (5 + 2)

\* extern char bootstacktop[]: the address just above the boot stack.  The
\* boot stack holds MaxDepth nested frames below the outermost one, the
\* frame of print_curr_trace, and a lowest page that is never a frame.
bootstacktop == FrameStride * MaxDepth + 48

\* Addresses of the words the model keeps: the boot stack and the five
\* words at and above bootstacktop.
Addr == {4 * k : k \in 0..((bootstacktop + 16) \div 4)}

\* Return addresses: Code(k) is where the function owning frame k resumes
\* in its caller; BtRet is where print_curr_trace resumes in mon_backtrace.
TextBase == 4096

Code(k) == TextBase + 16 * k

BtRet == TextBase + 16 * (MaxDepth + 1) + 8

\* The five words passed by the k-th nested call.
ArgVals(k) == [j \in 1..5 |-> 100 * k + j]

\* A machine state: stack memory, stack pointer, frame-base register.
Push(s, w) == [s EXCEPT !.esp = s.esp - 4, !.mem[s.esp - 4] = w]

RECURSIVE PushArgs(_, _)
PushArgs(s, args) == IF args = <<>> THEN s
                     ELSE PushArgs(Push(s, args[Len(args)]), SubSeq(args, 1, Len(args) - 1))

\* call f with args, then f's prologue: the arguments are pushed last to
\* first, then the return address, then the caller's frame base, whose
\* address becomes the new frame base.
Call(s, args, retaddr) ==
    LET s1 == PushArgs(s, args)
        s2 == Push(s1, retaddr)
        s3 == Push(s2, s.ebp)
    IN  [s3 EXCEPT !.ebp = s3.esp]

\* The machine at kernel entry: an empty boot stack, frame base 0, and
\* `junk` in the words above the stack.
Boot(junk) == [mem |-> [a \in Addr |-> IF a >= bootstacktop THEN junk ELSE 0],
               esp |-> bootstacktop,
               ebp |-> 0]

\* Kernel entry calls the outermost function with no arguments; each of d
\* nested calls then passes five words.
RECURSIVE NestedCalls(_, _)
NestedCalls(d, junk) == IF d = 0 THEN Call(Boot(junk), <<>>, Code(0))
                        ELSE Call(NestedCalls(d - 1, junk), ArgVals(d), Code(d))

\* The frame base of the k-th nested call.
Slot(k) == bootstacktop - 8 - FrameStride * k

Slots == {Slot(k) : k \in 0..MaxDepth}

\* What the call sites passed, per frame base: nothing to the outermost
\* function, ArgVals(k) to the k-th nested one.
CallSites(d) == [a \in {Slot(k) : k \in 0..d} |->
                    IF a = Slot(0) THEN <<>>
                    ELSE ArgVals((Slot(0) - a) \div FrameStride)]

\* Words found above the boot stack.
JunkWords == {0, 57005}

\* A stack as mon_backtrace finds it on entry, d calls below the outermost
\* frame, its own frame base in ebp.
BuiltStack(d, junk) ==
    LET s == NestedCalls(d, junk)
    IN  [mem |-> s.mem, ebp |-> s.ebp, callsite |-> CallSites(d)]

BuiltStacks == {BuiltStack(d, junk) : d \in 0..MaxDepth, junk \in JunkWords}

\* The same with the saved frame base of the frames below the outermost
\* one overwritten by any frame base of the stack.
Overwritten(stk, links) ==
    [stk EXCEPT !.mem = [a \in Addr |-> IF a \in DOMAIN links THEN links[a]
                                        ELSE stk.mem[a]]]

AnyStacks ==
    BuiltStacks \cup
    UNION {{Overwritten(BuiltStack(d, 0), links) :
               links \in [{Slot(k) : k \in 1..d} -> Slots]} :
           d \in 0..MaxDepth}

-----------------------------------------------------------------------------
(* The symbol resolver.                                                    *)

\* Every return address a stack of the model holds.
ReturnAddrs == {Code(k) : k \in 0..MaxDepth} \cup {BtRet}

\* The resolver knows every return address, all but one, or none.
SymTabs == {ReturnAddrs, {}} \cup {ReturnAddrs \ {e} : e \in ReturnAddrs}

\* The kernel image carries debug information or none.
KernelSymTabs == {ReturnAddrs, {}}

\* debuginfo_eip(addr, &info): 0 when info was filled in, negative when no
\* debug information covers addr.
debuginfo_eip(st, addr) == IF addr \in st THEN 0 ELSE -1

\* The info debuginfo_eip fills in for addr: the function name is longer
\* than its reported length.
Info(addr) == [eip_file |-> "kern/monitor.c",
               eip_line |-> (addr - TextBase) \div 16 + 1,
               eip_fn_name |-> <<"f", "n", ":", "F">>,
               eip_fn_namelen |-> 2,
               eip_fn_addr |-> addr - (addr % 16)]

-----------------------------------------------------------------------------
(* cprintf calls.                                                          *)

Cprintf(fmt, args) == [fmt |-> fmt, args |-> args]

FrameFmt == "  ebp %08x eip %08x args %08x %08x %08x %08x %08x\n"

\* The annotation format of print_curr_trace and of the unwind loop.
CurrAnnotFmt == "\t%s:%d: %.*s+%d\n"

LoopAnnotFmt == " \t%s:%d: %.*s+%d\n"

AnnotFmts == {CurrAnnotFmt, LoopAnnotFmt}

-----------------------------------------------------------------------------
(* monitor: the read and dispatch loop.                                    *)

\* runcmd's locals on entry: argc = 0; argv[argc] = 0.
FreshArgv == [i \in 0..(MAXARGS - 1) |-> IF i = 0 THEN NULL ELSE Indeterminate]

\* The values the variables of a command hold between two commands.
Idle == /\ bp' = 1
        /\ argc' = 0
        /\ argv' = FreshArgv
        /\ ret' = 0
        /\ out' = <<>>
        /\ invoked' = <<>>

\* No frame below monitor's own is live.
NoStack == /\ mem' = Boot(0).mem
           /\ ebp' = 0
           /\ curr_bp' = 0
           /\ callsite' = <<>>

MonitorStart ==
    /\ pc = "start"
    /\ out' = <<Cprintf("Welcome to the JOS kernel monitor!\n", <<>>),
                Cprintf("Type 'help' for a list of commands.\n", <<>>)>>
    /\ pc' = "reading"
    /\ UNCHANGED <<line, buf, bp, argc, argv, ret, invoked, mem, ebp, curr_bp,
                   symtab, callsite>>

\* buf = readline("K> ") returned NULL: the next iteration reads again.
ReadNull ==
    /\ pc = "reading"
    /\ buf' = NoLine
    /\ pc' = "reading"
    /\ UNCHANGED <<line, bp, argc, argv, ret, out, invoked, mem, ebp, curr_bp,
                   symtab, callsite>>

\* buf = readline("K> ") returned a line: runcmd(buf, tf) is entered.
ReadLine ==
    /\ pc = "reading"
    /\ \E l \in Lines : /\ line' = l
                        /\ buf' = l \o <<NUL>>
    /\ Idle
    /\ pc' = "parse"
    /\ UNCHANGED <<mem, ebp, curr_bp, symtab, callsite>>

\* A variant that also leaves the loop on signal 0.
TerminatesOnZero(r) == r <= 0

\* if (runcmd(buf, tf) < 0) break;
Terminates(r) == r < 0

\* if (runcmd(buf, tf) < 0) break;  Otherwise the loop goes on: runcmd's
\* frame and the output of the finished command are not kept.
MonitorCheck ==
    /\ pc = "returned"
    /\ IF Terminates(ret)
       THEN /\ pc' = "exit"
            /\ UNCHANGED <<line, buf, bp, argc, argv, ret, out, invoked, mem, ebp,
                           curr_bp, symtab, callsite>>
       ELSE /\ pc' = "reading"
            /\ line' = <<>>
            /\ buf' = NoLine
            /\ Idle
            /\ NoStack
            /\ UNCHANGED symtab

-----------------------------------------------------------------------------
(* runcmd: the tokenizer.                                                  *)

\* A variant whose separator set lacks the carriage return.
IsSpaceNoCR(c) == c # NUL /\ strchr(<<"\t", "\n", " ">>, c)

\* *buf && strchr(WHITESPACE, *buf)
IsSpace(c) == c # NUL /\ strchr(WHITESPACE, c)

IsTokenChar(c) == c # NUL /\ ~strchr(WHITESPACE, c)

\* while (*buf && strchr(WHITESPACE, *buf)) *buf++ = 0;
\* the index at which the loop leaves buf.
RECURSIVE GobbleEnd(_, _)
GobbleEnd(b, p) == IF IsSpace(b[p]) THEN GobbleEnd(b, p + 1) ELSE p

\* A variant that leaves the blanks in place.
GobbledNoWrite(b, p, q) == b

\* the buffer it leaves: the blanks from p up to q overwritten by NUL.
Gobbled(b, p, q) == [i \in 1..Len(b) |-> IF p <= i /\ i < q THEN NUL ELSE b[i]]

\* while (*buf && !strchr(WHITESPACE, *buf)) buf++;
RECURSIVE ScanEnd(_, _)
ScanEnd(b, p) == IF IsTokenChar(b[p]) THEN ScanEnd(b, p + 1) ELSE p

\* A variant without the test.
ArgvFullNever(n) == FALSE

\* A variant that takes one more argument.
ArgvFullLate(n) == n = MAXARGS

\* if (argc == MAXARGS-1)
ArgvFull(n) == n = MAXARGS - 1

\* Gobbling reached the end of the line: break; argv[argc] = 0.
ParseEnd ==
    /\ pc = "parse"
    /\ LET q == GobbleEnd(buf, bp)
       IN  /\ buf[q] = NUL
           /\ buf' = Gobbled(buf, bp, q)
           /\ bp' = q
    /\ argv' = [argv EXCEPT ![argc] = NULL]
    /\ pc' = "lookup"
    /\ UNCHANGED <<line, argc, ret, out, invoked, mem, ebp, curr_bp, symtab, callsite>>

\* Another token starts and argv is full: the line is rejected.
ParseTooMany ==
    /\ pc = "parse"
    /\ LET q == GobbleEnd(buf, bp)
       IN  /\ buf[q] # NUL
           /\ ArgvFull(argc)
           /\ buf' = Gobbled(buf, bp, q)
           /\ bp' = q
    /\ out' = Append(out, Cprintf("Too many arguments (max %d)\n", <<MAXARGS>>))
    /\ ret' = 0
    /\ pc' = "returned"
    /\ UNCHANGED <<line, argc, argv, invoked, mem, ebp, curr_bp, symtab, callsite>>

\* Another token starts: argv[argc++] = buf, and buf moves past the token.
ParseArg ==
    /\ pc = "parse"
    /\ LET q == GobbleEnd(buf, bp)
       IN  /\ buf[q] # NUL
           /\ ~ArgvFull(argc)
           /\ buf' = Gobbled(buf, bp, q)
           /\ argv' = [argv EXCEPT ![argc] = q]
           /\ bp' = ScanEnd(buf, q)
    /\ argc' = argc + 1
    /\ pc' = "parse"
    /\ UNCHANGED <<line, ret, out, invoked, mem, ebp, curr_bp, symtab, callsite>>

-----------------------------------------------------------------------------
(* runcmd: lookup and invocation.                                          *)

\* The argument strings argv[0..n-1] point to.
Tokens(b, av, n) == [i \in 1..n |-> CStr(b, av[i - 1])]

\* A variant that compares only as many characters as the command name has.
LookupPrefix(name) ==
    LET hits == {i \in 1..NCOMMANDS :
                    /\ Len(name) >= Len(commands[i].name)
                    /\ SubSeq(name, 1, Len(commands[i].name)) = commands[i].name}
    IN  IF hits = {} THEN 0
        ELSE CHOOSE i \in hits : \A j \in hits : i <= j

\* for (i = 0; i < NCOMMANDS; i++) if (strcmp(argv[0], commands[i].name) == 0)
\* the first matching entry of the table, 0 when there is none.
Lookup(name) ==
    LET hits == {i \in 1..NCOMMANDS : strcmp(name, commands[i].name) = 0}
    IN  IF hits = {} THEN 0
        ELSE CHOOSE i \in hits : \A j \in hits : i <= j

\* if (argc == 0) return 0;
RunEmpty ==
    /\ pc = "lookup"
    /\ argc = 0
    /\ ret' = 0
    /\ pc' = "returned"
    /\ UNCHANGED <<line, buf, bp, argc, argv, out, invoked, mem, ebp, curr_bp,
                   symtab, callsite>>

\* The stacks the calls that lead to mon_backtrace have built.
CallStacks == BuiltStacks

\* The signal field of a call the handler has not yet returned from; it
\* becomes <<s>> when the handler returns s.
Pending == <<>>

\* The calls made, with the handler's signal filled in when it returns.
Returned(inv, s) == [k \in 1..Len(inv) |-> [inv[k] EXCEPT !.signal = <<s>>]]

\* A variant in which mon_backtrace asks the monitor to exit.
HandlerSignalExit(f) == IF f = "mon_backtrace" THEN -1 ELSE 0

\* mon_help, mon_kerninfo and mon_backtrace each end in: return 0;
HandlerSignal(f) == 0

\* A variant that drops the handler's signal.
RuncmdReturnZero(s) == 0

\* return commands[i].func(argc, argv, tf);  -- the value runcmd returns
\* when the handler has returned s.
RuncmdReturn(s) == s

\* return commands[i].func(argc, argv, tf);
Invoke ==
    /\ pc = "lookup"
    /\ argc # 0
    /\ LET i == Lookup(CStr(buf, argv[0]))
       IN  /\ i # 0
           /\ invoked' = Append(invoked, [func |-> commands[i].func,
                                          argc |-> argc, argv |-> argv,
                                          signal |-> Pending])
           /\ pc' = commands[i].func
           /\ IF commands[i].func = "mon_backtrace"
              THEN \E stk \in CallStacks : /\ mem' = stk.mem
                                           /\ ebp' = stk.ebp
                                           /\ callsite' = stk.callsite
              ELSE UNCHANGED <<mem, ebp, callsite>>
    /\ UNCHANGED <<line, buf, bp, argc, argv, ret, out, curr_bp, symtab>>

\* cprintf("Unknown command '%s'\n", argv[0]); return 0;
RunUnknown ==
    /\ pc = "lookup"
    /\ argc # 0
    /\ Lookup(CStr(buf, argv[0])) = 0
    /\ out' = Append(out, Cprintf("Unknown command '%s'\n", <<CStr(buf, argv[0])>>))
    /\ ret' = 0
    /\ pc' = "returned"
    /\ UNCHANGED <<line, buf, bp, argc, argv, invoked, mem, ebp, curr_bp, symtab, callsite>>

\* A handler reached through Command.func that is none of this file's:
\* it returns any signal.
ForeignHandler ==
    /\ pc \in HandlerEntries
    /\ \E r \in Signals : /\ invoked' = Returned(invoked, r)
                          /\ ret' = RuncmdReturn(r)
    /\ pc' = "returned"
    /\ UNCHANGED <<line, buf, bp, argc, argv, out, mem, ebp, curr_bp,
                   symtab, callsite>>

-----------------------------------------------------------------------------
(* mon_help and mon_kerninfo.                                              *)

\* A variant whose loop stops one entry early.
HelpLinesShort == [i \in 1..(NCOMMANDS - 1) |->
                      Cprintf("%s - %s\n", <<commands[i].name, commands[i].desc>>)]

\* for (i = 0; i < NCOMMANDS; i++) cprintf("%s - %s\n", name, desc);
HelpLines == [i \in 1..NCOMMANDS |->
                 Cprintf("%s - %s\n", <<commands[i].name, commands[i].desc>>)]

MonHelp ==
    /\ pc = "mon_help"
    /\ out' = out \o HelpLines
    /\ invoked' = Returned(invoked, HandlerSignal("mon_help"))
    /\ ret' = RuncmdReturn(HandlerSignal("mon_help"))
    /\ pc' = "returned"
    /\ UNCHANGED <<line, buf, bp, argc, argv, mem, ebp, curr_bp, symtab, callsite>>

\* The values are those of the linker's symbols, named here.
KerninfoLines ==
    << Cprintf("Special kernel symbols:\n", <<>>),
       Cprintf("  _start                  %08x (phys)\n", <<"_start">>),
       Cprintf("  entry  %08x (virt)  %08x (phys)\n", <<"entry", "entry - KERNBASE">>),
       Cprintf("  etext  %08x (virt)  %08x (phys)\n", <<"etext", "etext - KERNBASE">>),
       Cprintf("  edata  %08x (virt)  %08x (phys)\n", <<"edata", "edata - KERNBASE">>),
       Cprintf("  end    %08x (virt)  %08x (phys)\n", <<"end", "end - KERNBASE">>),
       Cprintf("Kernel executable memory footprint: %dKB\n",
               <<"ROUNDUP(end - entry, 1024) / 1024">>) >>

MonKerninfo ==
    /\ pc = "mon_kerninfo"
    /\ out' = out \o KerninfoLines
    /\ invoked' = Returned(invoked, HandlerSignal("mon_kerninfo"))
    /\ ret' = RuncmdReturn(HandlerSignal("mon_kerninfo"))
    /\ pc' = "returned"
    /\ UNCHANGED <<line, buf, bp, argc, argv, mem, ebp, curr_bp, symtab, callsite>>

-----------------------------------------------------------------------------
(* print_curr_trace and mon_backtrace.                                     *)

\* The sentinel of the unwind loop: (uint32_t)bootstacktop-8.
Sentinel == bootstacktop - 8

\* A variant whose argument slots start at 0x4.
ArgAddrFromRet(b, j) == b + 4 * j

\* movl 0x8(%1) .. movl 0x18(%1): the address of the j-th argument word
\* of the frame with base b.
ArgAddr(b, j) == b + 4 + 4 * j

\* A variant that starts at 0x4, the return address.
ArgWordsFromRet(m, b) == [j \in 1..5 |-> m[b + 4 * j]]

\* The words at 0x8, 0xC, 0x10, 0x14, 0x18 from frame base b.
ArgWords(m, b) == [j \in 1..5 |-> m[ArgAddr(b, j)]]

\* The addresses one record is read from, for print_curr_trace with b its
\* %ebp and for a loop iteration with b = curr_bp: (b), 0x4(b), and
\* 0x8 .. 0x18 from prev_ebp, the word read at (b).
ReadAddrs(m, b) == {b, b + 4} \cup {ArgAddr(m[b], j) : j \in 1..5}

\* A variant with the test of debuginfo_eip's result inverted.
AnnotationOnMiss(fmt, st, eip) ==
    IF debuginfo_eip(st, eip) # 0
    THEN LET info == Info(eip)
             fn_addr == eip - info.eip_fn_addr
         IN  <<Cprintf(fmt, <<info.eip_file, info.eip_line, info.eip_fn_namelen,
                              info.eip_fn_name, fn_addr>>)>>
    ELSE <<>>

\* The annotation lines of one record: one cprintf when debuginfo_eip
\* returns 0, none otherwise.
Annotation(fmt, st, eip) ==
    IF debuginfo_eip(st, eip) = 0
    THEN LET info == Info(eip)
             fn_addr == eip - info.eip_fn_addr
         IN  <<Cprintf(fmt, <<info.eip_file, info.eip_line, info.eip_fn_namelen,
                              info.eip_fn_name, fn_addr>>)>>
    ELSE <<>>

\* print_curr_trace running with frame base fp: prev_ebp and prev_eip are
\* read at (%ebp) and 0x4(%ebp), the arguments relative to prev_ebp.  It is
\* an external function called from mon_backtrace, so %ebp is the base of
\* its own frame, which holds mon_backtrace's frame base at offset 0.
PrintCurrTrace(m, fp, st) ==
    LET prev_ebp == m[fp]
        prev_eip == m[fp + 4]
        prev_args == ArgWords(m, prev_ebp)
    IN  <<Cprintf(FrameFmt, <<prev_ebp, prev_eip>> \o prev_args)>>
        \o Annotation(CurrAnnotFmt, st, prev_eip)

\* A variant that reads the return address from the caller's frame.
LoopTraceEipOfCaller(m, cb, st) ==
    LET prev_ebp == m[cb]
        prev_eip == m[prev_ebp + 4]
        prev_args == ArgWords(m, prev_ebp)
    IN  <<Cprintf(FrameFmt, <<prev_ebp, prev_eip>> \o prev_args)>>
        \o Annotation(LoopAnnotFmt, st, prev_eip)

\* A variant that reads the arguments relative to the current frame base.
LoopTraceArgsOfCurrent(m, cb, st) ==
    LET prev_ebp == m[cb]
        prev_eip == m[cb + 4]
        prev_args == ArgWords(m, cb)
    IN  <<Cprintf(FrameFmt, <<prev_ebp, prev_eip>> \o prev_args)>>
        \o Annotation(LoopAnnotFmt, st, prev_eip)

\* A variant that reports the current frame base and the arguments above
\* it, not the caller's.
LoopTraceOfCurrent(m, cb, st) ==
    LET prev_eip == m[cb + 4]
    IN  <<Cprintf(FrameFmt, <<cb, prev_eip>> \o ArgWords(m, cb))>>
        \o Annotation(LoopAnnotFmt, st, prev_eip)

\* One iteration of the unwind loop with current frame base cb.
LoopTrace(m, cb, st) ==
    LET prev_ebp == m[cb]
        prev_eip == m[cb + 4]
        prev_args == ArgWords(m, prev_ebp)
    IN  <<Cprintf(FrameFmt, <<prev_ebp, prev_eip>> \o prev_args)>>
        \o Annotation(LoopAnnotFmt, st, prev_eip)

\* A variant that does not advance.
NextBpStuck(m, cb) == cb

\* mov (%1), %0 : curr_bp = *curr_bp.
NextBp(m, cb) == m[cb]

\* A variant that unwinds until the frame base is null.
UnwindingToNull(cb) == cb # 0

\* while (curr_bp != (uint32_t)bootstacktop-8)
Unwinding(cb) == cb # Sentinel

\* The frame records among the cprintf calls o.
FrameLines(o) == SelectSeq(o, LAMBDA c : c.fmt = FrameFmt)

\* Records after which the model stops following a chain.
MaxRecords == MaxDepth + 1 + ExtraRecords

\* mon_backtrace up to its loop: the header, the call of print_curr_trace
\* (which pushes its frame below mon_backtrace's), curr_bp = ebp.
MonBacktrace ==
    /\ pc = "mon_backtrace"
    /\ LET s == Call([mem |-> mem, esp |-> ebp, ebp |-> ebp], <<>>, BtRet)
       IN  /\ out' = out \o <<Cprintf("Stack backtrace:\n", <<>>)>>
                         \o PrintCurrTrace(s.mem, s.ebp, symtab)
           /\ mem' = s.mem
    /\ curr_bp' = ebp
    /\ pc' = "bt_loop"
    /\ UNCHANGED <<line, buf, bp, argc, argv, ret, invoked, ebp, symtab, callsite>>

BtLoop ==
    /\ pc = "bt_loop"
    /\ Unwinding(curr_bp)
    /\ Len(FrameLines(out)) < MaxRecords
    /\ out' = out \o LoopTrace(mem, curr_bp, symtab)
    /\ curr_bp' = NextBp(mem, curr_bp)
    /\ UNCHANGED <<pc, line, buf, bp, argc, argv, ret, invoked, mem, ebp, symtab, callsite>>

\* The loop is left: return 0.
BtReturn ==
    /\ pc = "bt_loop"
    /\ ~Unwinding(curr_bp)
    /\ invoked' = Returned(invoked, HandlerSignal("mon_backtrace"))
    /\ ret' = RuncmdReturn(HandlerSignal("mon_backtrace"))
    /\ pc' = "returned"
    /\ UNCHANGED <<line, buf, bp, argc, argv, out, mem, ebp, curr_bp,
                   symtab, callsite>>

-----------------------------------------------------------------------------
(* Specifications.                                                         *)

\* The monitor as the kernel enters it.
Init ==
    /\ pc = "start"
    /\ line = <<>>
    /\ buf = NoLine
    /\ bp = 1
    /\ argc = 0
    /\ argv = FreshArgv
    /\ ret = 0
    /\ out = <<>>
    /\ invoked = <<>>
    /\ mem = Boot(0).mem
    /\ ebp = 0
    /\ curr_bp = 0
    /\ callsite = <<>>
    /\ symtab \in KernelSymTabs

Next ==
    \/ MonitorStart
    \/ ReadNull
    \/ ReadLine
    \/ ParseEnd
    \/ ParseTooMany
    \/ ParseArg
    \/ RunEmpty
    \/ Invoke
    \/ RunUnknown
    \/ MonHelp
    \/ MonKerninfo
    \/ MonBacktrace
    \/ BtLoop
    \/ BtReturn
    \/ MonitorCheck

Spec == Init /\ [][Next]_vars

\* The monitor with a command table whose handlers may be any function of
\* the Command.func type.
NextOpen == Next \/ ForeignHandler

SpecOpen == Init /\ [][NextOpen]_vars

\* mon_backtrace entered on any stack, with any resolver.
InitBT ==
    /\ pc = "mon_backtrace"
    /\ line = <<>>
    /\ buf = NoLine
    /\ bp = 1
    /\ argc = 0
    /\ argv = FreshArgv
    /\ ret = 0
    /\ out = <<>>
    /\ invoked = <<>>
    /\ \E stk \in AnyStacks : /\ mem = stk.mem
                              /\ ebp = stk.ebp
                              /\ callsite = stk.callsite
    /\ curr_bp = 0
    /\ symtab \in SymTabs

NextBT == MonBacktrace \/ BtLoop \/ BtReturn

SpecBT == InitBT /\ [][NextBT]_vars

\* The unwinder is a sequential program: it takes its next step whenever
\* it has one.
FairSpecBT == SpecBT /\ WF_vars(NextBT)

-----------------------------------------------------------------------------
(* Properties of the unwinder, checked under SpecBT and FairSpecBT.        *)

\* The number of saved-frame-base steps that lead from frame base a to the
\* sentinel in memory m; -1 when more than n steps do not reach it.
RECURSIVE StepsToSentinel(_, _, _)
StepsToSentinel(m, a, n) ==
    IF a = bootstacktop - 8 THEN 0
    ELSE IF n = 0 \/ a \notin Addr THEN -1
    ELSE LET r == StepsToSentinel(m, m[a], n - 1)
         IN  IF r < 0 THEN -1 ELSE r + 1

\* D of the stack mon_backtrace runs on: the steps from its frame base.
Depth == StepsToSentinel(mem, ebp, Cardinality(Addr))

\* What a frame record reports.
RecEbp(c) == c.args[1]

RecEip(c) == c.args[2]

RecArgs(c) == SubSeq(c.args, 3, 7)

Records == FrameLines(out)

BtDone == pc = "returned"

\* C1: when the frame chain from mon_backtrace's frame base F0 reaches the
\* sentinel after D steps, a finished backtrace has emitted exactly D+1
\* frame records (never more on the way); the first reports F0, and every
\* later one reports the word stored at offset 0 of the frame base the
\* record before it reports.
C1_RecordsFollowChain ==
    /\ Depth >= 0 => Len(Records) <= Depth + 1
    /\ BtDone =>
         /\ Depth >= 0
         /\ Len(Records) = Depth + 1
         /\ RecEbp(Records[1]) = ebp
         /\ \A i \in 2..Len(Records) :
                RecEbp(Records[i]) = mem[RecEbp(Records[i - 1])]

\* A backtrace over the deepest chain has finished.
C1_Witness ==
    /\ BtDone
    /\ Depth = MaxDepth
    /\ Len(Records) = MaxDepth + 1

\* C2 as claimed: the frame base the last record reports immediately
\* precedes the sentinel: the word at its offset 0 is the sentinel.
C2_LastPrecedesSentinel ==
    BtDone => mem[RecEbp(Records[Len(Records)])] = bootstacktop - 8

\* C2 amended: the frame base the last record of a finished backtrace
\* reports is the sentinel itself; it is the record before it, when there
\* is one, whose reported frame base holds the sentinel at offset 0.
C2_LastReportsSentinel ==
    BtDone =>
        /\ RecEbp(Records[Len(Records)]) = bootstacktop - 8
        /\ Len(Records) >= 2 =>
               mem[RecEbp(Records[Len(Records) - 1])] = bootstacktop - 8

\* A finished backtrace of at least two records.
C2_Witness ==
    /\ BtDone
    /\ Len(Records) >= 2
    /\ RecEbp(Records[Len(Records)]) = bootstacktop - 8

\* C3: the loop is left only with curr_bp equal to the sentinel, after
\* exactly D iterations and with signal 0; a chain that reaches the
\* sentinel is unwound to the end; over a chain that never reaches it the
\* backtrace never returns and goes on emitting records (up to the
\* model's MaxRecords).
C3_StopsExactlyAtSentinel ==
    /\ [](BtDone => /\ curr_bp = bootstacktop - 8
                    /\ ret = 0
                    /\ Depth >= 0
                    /\ Len(Records) - 1 = Depth)
    /\ [][pc = "bt_loop" /\ curr_bp # bootstacktop - 8 => pc' = "bt_loop"]_vars
    /\ [](Depth >= 0 => <>BtDone)
    /\ [](Depth < 0 => ~BtDone /\ <>(Len(Records) = MaxRecords))

\* A chain that never reaches the sentinel is still being unwound when the
\* model stops following it.
C3_Witness ==
    /\ pc = "bt_loop"
    /\ Depth < 0
    /\ curr_bp # bootstacktop - 8
    /\ Len(Records) = MaxRecords

IsFrame(c) == c.fmt = FrameFmt

IsAnnot(c) == c.fmt \in AnnotFmts

\* C4: every frame record is followed by exactly one annotation line when
\* the resolver returns 0 for its return address and by none otherwise;
\* an annotation line only ever follows a frame record; and a resolver
\* miss does not end the unwind: a finished backtrace has all D+1 records.
C4_AnnotationIffResolved ==
    /\ \A i \in 1..Len(out) :
          /\ IsFrame(out[i]) =>
                IF debuginfo_eip(symtab, RecEip(out[i])) = 0
                THEN /\ i + 1 <= Len(out)
                     /\ IsAnnot(out[i + 1])
                     /\ i + 2 <= Len(out) => ~IsAnnot(out[i + 2])
                ELSE i + 1 <= Len(out) => ~IsAnnot(out[i + 1])
          /\ IsAnnot(out[i]) => i > 1 /\ IsFrame(out[i - 1])
    /\ BtDone => Len(Records) = Depth + 1

\* A finished backtrace with an unresolved record in the middle: resolved
\* records come before and after it.
C4_Witness ==
    /\ BtDone
    /\ \E i \in 2..(Len(out) - 3) :
          /\ IsFrame(out[i]) /\ IsAnnot(out[i + 1])
          /\ IsFrame(out[i + 2])
          /\ IsFrame(out[i + 3])
          /\ \E j \in (i + 4)..Len(out) : IsAnnot(out[j])

\* The stack is as the nested calls built it: nothing at or above
\* mon_backtrace's frame base was overwritten.
AsBuilt ==
    \E stk \in BuiltStacks :
        /\ stk.ebp = ebp
        /\ stk.callsite = callsite
        /\ \A a \in Addr : a >= ebp => mem[a] = stk.mem[a]

\* C5 as claimed: on a stack built by nested calls, every record reports
\* the five words passed at the call site of the function that owns the
\* frame base the record reports.
C5_EveryRecordReportsPassedArgs ==
    AsBuilt => \A i \in 1..Len(Records) :
                   /\ RecEbp(Records[i]) \in DOMAIN callsite
                   /\ RecArgs(Records[i]) = callsite[RecEbp(Records[i])]

\* C5 amended: on a stack built by nested calls, every record whose
\* reported frame base lies below the sentinel reports the five words
\* passed at the call site of the function that owns that frame base; the
\* record that reports the sentinel reports the five words stored at
\* bootstacktop and above, which no call site passed.
C5_RecordsBelowSentinelReportPassedArgs ==
    AsBuilt => \A i \in 1..Len(Records) :
                   LET b == RecEbp(Records[i])
                   IN  /\ b \in DOMAIN callsite
                       /\ b # bootstacktop - 8 =>
                              RecArgs(Records[i]) = callsite[b]
                       /\ b = bootstacktop - 8 =>
                              /\ callsite[b] = <<>>
                              /\ RecArgs(Records[i]) =
                                    [j \in 1..5 |-> mem[bootstacktop + 4 * (j - 1)]]

\* A finished backtrace of the deepest built stack, with recognisable
\* words above the stack.
C5_Witness ==
    /\ BtDone
    /\ AsBuilt
    /\ Len(Records) = MaxDepth + 1
    /\ RecArgs(Records[1]) = ArgVals(MaxDepth)
    /\ RecArgs(Records[Len(Records)]) = [j \in 1..5 |-> 57005]

-----------------------------------------------------------------------------
(* Properties of runcmd and monitor, checked under Spec and SpecOpen.      *)

IsBlank(c) == c \in {"\t", "\r", "\n", " "}

\* Where the maximal runs of non-blank characters of line l start.
RunStarts(l) == {i \in 1..Len(l) : ~IsBlank(l[i]) /\ (i = 1 \/ IsBlank(l[i - 1]))}

\* The maximal run that starts at i.
RunAt(l, i) ==
    LET j == CHOOSE k \in i..Len(l) :
                 /\ \A x \in i..k : ~IsBlank(l[x])
                 /\ (k = Len(l) \/ IsBlank(l[k + 1]))
    IN  SubSeq(l, i, j)

\* The maximal runs of non-blank characters of l, left to right.
RefTokens(l) ==
    [n \in 1..Cardinality(RunStarts(l)) |->
        RunAt(l, CHOOSE i \in RunStarts(l) :
                     Cardinality({k \in RunStarts(l) : k <= i}) = n)]

NTokens(l) == Cardinality(RunStarts(l))

TooManyNotice == Cprintf("Too many arguments (max %d)\n", <<MAXARGS>>)

UnknownNotice(tok) == Cprintf("Unknown command '%s'\n", <<tok>>)

\* c is among the output; c is all of the output.
Printed(c) == \E i \in 1..Len(out) : out[i].fmt = c.fmt /\ out[i].args = c.args

PrintedOnly(c) == Len(out) = 1 /\ out[1].fmt = c.fmt /\ out[1].args = c.args

CommandNames == {commands[i].name : i \in 1..NCOMMANDS}

\* C6: a line is rejected exactly when it has MAXARGS or more tokens: no
\* lookup is reached and no handler invoked for it, and runcmd returns 0
\* having printed the notice and nothing else; a line of fewer tokens never
\* gets the notice, and with at least one token it reaches the lookup: a
\* handler is invoked or the unknown-command notice printed.
C6_RejectsIffTooManyTokens ==
    LET n == NTokens(line)
    IN  /\ n >= MAXARGS =>
              /\ invoked = <<>>
              /\ pc \in {"parse", "returned"}
              /\ pc = "returned" => PrintedOnly(TooManyNotice) /\ ret = 0
        /\ n < MAXARGS => ~Printed(TooManyNotice)
        /\ (n \in 1..(MAXARGS - 1) /\ pc = "returned") =>
              \/ Len(invoked) = 1
              \/ Printed(UnknownNotice(RefTokens(line)[1]))

\* A line of exactly MAXARGS tokens whose first names a command has been
\* rejected.
C6_Witness ==
    /\ pc = "returned"
    /\ NTokens(line) = MAXARGS
    /\ RefTokens(line)[1] = commands[1].name
    /\ PrintedOnly(TooManyNotice)
    /\ invoked = <<>>

\* C7: once a line of fewer than MAXARGS tokens is tokenized, argc is the
\* number of its maximal runs of non-blank characters and argv[0..argc-1]
\* are those runs, in order, each terminated in place by a NUL; no token is
\* empty or holds a blank.
C7_TokensAreMaximalRuns ==
    (pc \notin {"start", "reading", "parse"} /\ NTokens(line) < MAXARGS) =>
        /\ argc = NTokens(line)
        /\ Tokens(buf, argv, argc) = RefTokens(line)
        /\ \A i \in 1..argc :
              LET t == Tokens(buf, argv, argc)[i]
              IN  /\ t # <<>>
                  /\ \A k \in 1..Len(t) : ~IsBlank(t[k])
                  /\ SubSeq(buf, argv[i - 1], argv[i - 1] + Len(t) - 1) = t
                  /\ buf[argv[i - 1] + Len(t)] = NUL

\* "  backtrace   \n" has been tokenized into the one token "backtrace".
C7_Witness ==
    /\ pc = "lookup"
    /\ line = <<" ", " ">> \o commands[3].name \o <<" ", " ", " ", "\n">>
    /\ argc = 1
    /\ Tokens(buf, argv, argc) = <<commands[3].name>>

UnknownFirst ==
    /\ NTokens(line) \in 1..(MAXARGS - 1)
    /\ RefTokens(line)[1] \notin CommandNames

\* C8: for a line of 1 to MAXARGS-1 tokens whose first token is no
\* registered name, no handler is ever entered, runcmd returns 0 having
\* printed exactly "Unknown command '<first token>'", and the monitor's
\* next step is to read again.
C8_UnknownCommandContinues ==
    /\ [](UnknownFirst =>
            /\ invoked = <<>>
            /\ pc \in {"parse", "lookup", "returned"}
            /\ pc = "returned" =>
                  /\ PrintedOnly(UnknownNotice(RefTokens(line)[1]))
                  /\ ret = 0)
    /\ [][(UnknownFirst /\ pc = "returned") => pc' = "reading"]_vars

\* "unknown" has been answered.
C8_Witness ==
    /\ pc = "returned"
    /\ PrintedOnly(UnknownNotice(<<"u","n","k","n","o","w","n">>))
    /\ ret = 0

\* C9: when mon_help has returned, whatever argc and argv it was invoked
\* with, the output is one "%s - %s" line per registered command: help,
\* kerninfo, backtrace, in this order, each with its description, and
\* nothing else; the signal is 0.
C9_HelpListsTable ==
    (pc = "returned" /\ invoked # <<>> /\ invoked[1].func = "mon_help") =>
        /\ ret = 0
        /\ [i \in 1..Len(out) |-> out[i].args[1]] =
               << <<"h","e","l","p">>,
                  <<"k","e","r","n","i","n","f","o">>,
                  <<"b","a","c","k","t","r","a","c","e">> >>
        /\ \A i \in 1..Len(out) :
              /\ out[i].fmt = "%s - %s\n"
              /\ \E k \in 1..NCOMMANDS : out[i].args = <<commands[k].name, commands[k].desc>>

\* help has returned after an invocation with as many arguments as fit.
C9_Witness ==
    /\ pc = "returned"
    /\ invoked # <<>>
    /\ invoked[1].func = "mon_help"
    /\ invoked[1].argc = MAXARGS - 1
    /\ Len(out) = 3

\* C10: the monitor reaches exit only from a returned runcmd whose
\* dispatched handler gave a negative signal, and then always; a runcmd
\* that dispatched no handler (empty line, too many arguments, unknown
\* command) returns 0; every signal >= 0 leads back to reading; reading
\* leads to reading again (a null line) or into runcmd; nothing happens
\* after exit.
C10_ExitOnlyOnNegativeSignal ==
    /\ []((pc = "returned" /\ invoked = <<>>) => ret = 0)
    /\ [][/\ pc' = "exit" => (pc = "returned" /\ ret < 0 /\ invoked # <<>>)
          /\ (pc = "returned" /\ ret < 0) => pc' = "exit"
          /\ (pc = "returned" /\ ret >= 0) => pc' = "reading"
          /\ pc = "reading" => pc' \in {"reading", "parse"}
          /\ pc # "exit"]_vars

\* The monitor has exited.
C10_Witness ==
    /\ pc = "exit"
    /\ ret < 0


-----------------------------------------------------------------------------
(* C11.                                                                    *)

\* C11: with the three registered commands no handler returns a negative
\* signal, runcmd never returns one, and monitor never leaves its loop, for
\* every sequence of lines and null reads.
C11_MonitorNeverReturns ==
    /\ pc # "exit"
    /\ pc = "returned" => ret >= 0
    /\ \A k \in 1..Len(invoked) :
          invoked[k].signal # Pending => invoked[k].signal[1] >= 0

\* mon_backtrace has run to its return and runcmd has returned its signal.
C11_Witness ==
    /\ pc = "returned"
    /\ Len(invoked) = 1
    /\ invoked[1].func = "mon_backtrace"
    /\ invoked[1].signal = <<0>>
    /\ ret = 0

-----------------------------------------------------------------------------
(* C12.                                                                    *)

\* Every character of the line is whitespace (the empty line included).
AllBlank(l) == \A i \in 1..Len(l) : IsBlank(l[i])

\* runcmd is running on, or has returned from, the line read.
InRuncmd == pc \notin {"start", "reading", "exit"}

\* C12: a line that is empty or all whitespace yields zero tokens and is
\* ignored: nothing is printed, no handler is invoked, runcmd returns 0.
C12_BlankLineIgnored ==
    (InRuncmd /\ AllBlank(line)) =>
        /\ pc \in {"parse", "lookup", "returned"}
        /\ argc = 0
        /\ out = <<>>
        /\ invoked = <<>>
        /\ pc = "returned" => ret = 0

\* runcmd has returned from a line of several whitespace characters.
C12_Witness ==
    /\ pc = "returned"
    /\ Len(line) >= 2
    /\ AllBlank(line)
    /\ \E i \in 1..Len(line) : line[i] = "\r"
    /\ ret = 0

-----------------------------------------------------------------------------
(* C13.                                                                    *)

\* C13 as claimed: every annotation line, after the current-frame record
\* and after every loop record alike, is printed with one layout whose
\* first character is the tab: tab, file, colon, line, colon, space, the
\* function name cut to its reported length, plus sign, decimal offset of
\* the record's return address from the function's start.
C13_AnnotationsShareLayout ==
    \A i \in 1..Len(out) :
        IsAnnot(out[i]) =>
            /\ out[i].fmt = "\t%s:%d: %.*s+%d\n"
            /\ i > 1 /\ IsFrame(out[i - 1])
            /\ LET eip == RecEip(out[i - 1])
                   info == Info(eip)
               IN  out[i].args = <<info.eip_file, info.eip_line,
                                   info.eip_fn_namelen, info.eip_fn_name,
                                   eip - info.eip_fn_addr>>

-----------------------------------------------------------------------------
(* C14.                                                                    *)

\* C14: every iteration of the unwind loop, entered with current frame base
\* B, appends one record whose reported frame base is the word at B (the
\* caller's frame base C), whose return address is the word at B+4 and
\* whose five arguments are the words at C+8, C+12, C+16, C+20, C+24; it
\* then continues with curr_bp = C, leaving memory as it was.
C14_LoopIterationReadsCallerFrame ==
    [][(pc = "bt_loop" /\ pc' = "bt_loop") =>
          LET B == curr_bp
              C == mem[B]
              n == Len(out)
          IN  /\ Len(out') > n
              /\ SubSeq(out', 1, n) = out
              /\ IsFrame(out'[n + 1])
              /\ out'[n + 1].args = <<C, mem[B + 4], mem[C + 8], mem[C + 12],
                                      mem[C + 16], mem[C + 20], mem[C + 24]>>
              /\ Len(FrameLines(out')) = Len(FrameLines(out)) + 1
              /\ curr_bp' = C
              /\ mem' = mem]_vars

\* Two iterations have run: the loop stands at the frame base its last
\* record reports, and that record's arguments are those of that frame,
\* other than the ones the record before it reports.
C14_Witness ==
    /\ pc = "bt_loop"
    /\ Len(Records) >= 3
    /\ curr_bp = RecEbp(Records[Len(Records)])
    /\ RecArgs(Records[Len(Records)]) = ArgWords(mem, curr_bp)
    /\ RecArgs(Records[Len(Records)]) # RecArgs(Records[Len(Records) - 1])
    /\ RecEip(Records[Len(Records)]) # mem[curr_bp + 4]

-----------------------------------------------------------------------------
(* C15.                                                                    *)

\* The line has 1 to MAXARGS-1 tokens and its first token is, character
\* for character, a name of the command table.
KnownFirst ==
    /\ NTokens(line) \in 1..(MAXARGS - 1)
    /\ RefTokens(line)[1] \in CommandNames

\* The handler the table registers under name.
RegisteredFunc(name) ==
    commands[CHOOSE i \in 1..NCOMMANDS : commands[i].name = name].func

\* Positions inside or after a handler call.
Dispatched == HandlerEntries \cup {"bt_loop", "returned", "exit"}

\* C15: for a line of 1 to MAXARGS-1 tokens whose first token equals a
\* registered name, runcmd calls one handler once, the one registered
\* under that name, with argc the number of tokens and argv the tokens in
\* order followed by a null entry, and returns that handler's signal
\* unchanged; no other handler runs and "Unknown command" is not printed.
C15_DispatchesRegisteredHandler ==
    (KnownFirst /\ pc \notin {"start", "reading"}) =>
        /\ Len(invoked) <= 1
        /\ \A i \in 1..Len(out) : out[i].fmt # "Unknown command '%s'\n"
        /\ pc \in HandlerEntries => pc = RegisteredFunc(RefTokens(line)[1])
        /\ pc \in Dispatched =>
              /\ Len(invoked) = 1
              /\ invoked[1].func = RegisteredFunc(RefTokens(line)[1])
              /\ invoked[1].argc = NTokens(line)
              /\ Tokens(buf, invoked[1].argv, invoked[1].argc) = RefTokens(line)
              /\ invoked[1].argv[invoked[1].argc] = NULL
        /\ pc \in {"returned", "exit"} =>
              /\ invoked[1].signal # Pending
              /\ ret = invoked[1].signal[1]

\* "help backtrace" has been answered by the handler registered as help
\* alone, which returned 1, and so did runcmd.
C15_Witness ==
    /\ pc = "returned"
    /\ KnownFirst
    /\ RefTokens(line) = << <<"h","e","l","p">>,
                            <<"b","a","c","k","t","r","a","c","e">> >>
    /\ Len(invoked) = 1
    /\ invoked[1].func = "mon_help"
    /\ invoked[1].argc = 2
    /\ invoked[1].signal = <<1>>
    /\ ret = 1

-----------------------------------------------------------------------------
(* C16.                                                                    *)

\* The addresses the next step of the backtrace reads: those of
\* print_curr_trace, called from mon_backtrace, or those of the loop
\* iteration the loop condition admits.
NextReads ==
    IF pc = "mon_backtrace"
    THEN LET s == Call([mem |-> mem, esp |-> ebp, ebp |-> ebp], <<>>, BtRet)
         IN  ReadAddrs(s.mem, s.ebp)
    ELSE IF pc = "bt_loop" /\ Unwinding(curr_bp)
         THEN ReadAddrs(mem, curr_bp)
         ELSE {}

\* C16 as claimed: on a stack built by nested calls, every word a
\* backtrace reads (saved frame base, return address, five arguments, of
\* every record) lies strictly below bootstacktop.
C16_ReadsBelowStackTop ==
    AsBuilt => \A a \in NextReads : a < bootstacktop

\* C16 amended: on a stack built by nested calls, every saved frame base
\* and every return address is read strictly below the sentinel, and the
\* five arguments of every record whose reported frame base lies below
\* the sentinel are read strictly below the sentinel too; the five
\* arguments of the last record, which reports the sentinel, are read at
\* bootstacktop, bootstacktop+4, .., bootstacktop+16, and nothing is read
\* after them.
C16_OnlyLastArgsReadAboveStackTop ==
    LET reading == pc = "mon_backtrace" \/ (pc = "bt_loop" /\ Unwinding(curr_bp))
        at == IF pc = "mon_backtrace" THEN ebp - 8 ELSE curr_bp
        prev_ebp == IF pc = "mon_backtrace" THEN ebp ELSE mem[curr_bp]
    IN  AsBuilt =>
            /\ reading =>
                  /\ at + 4 < bootstacktop - 8
                  /\ {at, at + 4} \subseteq NextReads
                  /\ IF prev_ebp # bootstacktop - 8
                     THEN \A a \in NextReads : a < bootstacktop - 8
                     ELSE NextReads \ {at, at + 4} =
                              {bootstacktop + 4 * (j - 1) : j \in 1..5}
            /\ \A i \in 1..Len(Records) :
                  RecEbp(Records[i]) = bootstacktop - 8 =>
                      /\ i = Len(Records)
                      /\ ~reading

\* The loop is about to read the record that reports the sentinel, two
\* records having been read below it.
C16_Witness ==
    /\ AsBuilt
    /\ pc = "bt_loop"
    /\ Unwinding(curr_bp)
    /\ mem[curr_bp] = bootstacktop - 8
    /\ Len(Records) = 2
    /\ bootstacktop + 16 \in NextReads

-----------------------------------------------------------------------------
(* C17.                                                                    *)

\* C17 as claimed: in every record the reported return address is the
\* word stored at offset 4 from the record's reported frame base.
C17_EipOfReportedFrame ==
    \A i \in 1..Len(Records) :
        RecEip(Records[i]) = mem[RecEbp(Records[i]) + 4]

\* The frame base each record was read at: print_curr_trace's own for the
\* first record, the frame base the record before it reports for a later
\* one.
ReadAt(i) == IF i = 1 THEN ebp - 8 ELSE RecEbp(Records[i - 1])

\* C17 amended: in every record the reported return address is the word
\* stored at offset 4 of the frame whose offset-0 word is the record's
\* reported frame base, the frame of the callee of the function that owns
\* the reported frame base: it is the address at which that function
\* resumes after its callee returns, and on a stack built by nested calls
\* it is not the word at offset 4 from the reported frame base.
C17_EipOfCalleeFrame ==
    \A i \in 1..Len(Records) :
        /\ RecEbp(Records[i]) = mem[ReadAt(i)]
        /\ RecEip(Records[i]) = mem[ReadAt(i) + 4]
        /\ AsBuilt => RecEip(Records[i]) # mem[RecEbp(Records[i]) + 4]

\* A finished backtrace of three records on a built stack: the second
\* reports the return address stored in mon_backtrace's frame.
C17_Witness ==
    /\ BtDone
    /\ AsBuilt
    /\ Len(Records) = 3
    /\ RecEip(Records[2]) = mem[ebp + 4]
    /\ RecEbp(Records[2]) = mem[ebp]
    /\ RecEbp(Records[2]) # ebp

-----------------------------------------------------------------------------
(* C18.                                                                    *)

\* The indices of char *argv[MAXARGS].
ArgvIndex == 0..(MAXARGS - 1)

\* runcmd is past the tokenizer and has not rejected the line.
Accepted ==
    /\ pc \notin {"start", "reading", "parse"}
    /\ \A i \in 1..Len(out) : out[i].fmt # TooManyNotice.fmt

\* C18: whatever the line, argc stays within 0..MAXARGS-1; every step of
\* the tokenizer that writes argv writes the one entry argv[argc], with
\* argc within 0..MAXARGS-1: a token's address with argc incremented, or
\* the null terminator; a rejected line writes nothing; and once a line is
\* accepted argv[argc] is null and argv[0..argc-1] point at characters of
\* the line inside the buffer.
C18_ArgvWritesInBounds ==
    /\ [](/\ argc \in ArgvIndex
          /\ DOMAIN argv = ArgvIndex
          /\ Accepted =>
                /\ argv[argc] = NULL
                /\ \A i \in 0..(argc - 1) :
                      /\ argv[i] \in 1..Len(line)
                      /\ ~IsBlank(line[argv[i]]))
    /\ [][pc = "parse" =>
            /\ argc \in ArgvIndex
            /\ \A i \in ArgvIndex \ {argc} : argv'[i] = argv[i]
            /\ pc' = "parse" => /\ argv'[argc] \in 1..Len(line)
                                /\ argc' = argc + 1
            /\ pc' = "lookup" => /\ argv'[argc] = NULL
                                 /\ argc' = argc
            /\ pc' = "returned" => /\ argv' = argv
                                   /\ argc' = argc]_vars

\* A line of MAXARGS-1 tokens has been accepted: the terminator went into
\* the last entry of argv.
C18_Witness ==
    /\ pc = "lookup"
    /\ argc = MAXARGS - 1
    /\ argv[MAXARGS - 1] = NULL
    /\ argv[MAXARGS - 2] \in 1..Len(line)
    /\ NTokens(line) = MAXARGS - 1

=============================================================================
